---- MODULE Spec2Model ----
(***************************************************************************)
(* A model of dynamic_rest/client/client.py: the DRESTClient object, its   *)
(* authentication flag and credential headers, the request / status-code   *)
(* mapping, and resource lookup through __getattr__.                       *)
(*                                                                         *)
(* Strings the code only stores, compares with '' or formats are TLA+      *)
(* strings.  Strings the code inspects character by character (resource    *)
(* names, URLs) are sequences of one-character strings.                    *)
(***************************************************************************)
EXTENDS Integers, Sequences, FiniteSets, TLC

VARIABLES
    self,          \* the DRESTClient instance: a record of its attributes
    heap,          \* number of DRESTResource objects handed out by lookups
    op,            \* the most recent call made on the client, with its arguments
    result,        \* how that call ended: a returned value or a raised error
    calls,         \* the HTTP exchanges that call performed, in order
    held,          \* <<lower-cased name, object>> of every lookup result so far
    requestsOnly   \* TRUE while every call since construction was request()

vars == <<self, heap, op, result, calls, held, requestsOnly>>

---------------------------------------------------------------------------
(* Bounds of the model.                                                    *)

\* DRESTResource objects a behaviour may obtain through lookups.
MaxObjects == 2

---------------------------------------------------------------------------
(* Python values.                                                          *)

\* None, where a str is expected (a credential value, a header value).
None == "<None>"

\* An instance attribute that was never assigned.
Unset == "<unset>"

\* None, where a character-sequence string is expected (version, prefix).
NoneStr == <<"<None>">>

\* bool(value) for a str or None.
Truthy(value) == value # None /\ value # ""

\* bool(value) for a character-sequence string or None.
TruthyStr(s) == s # NoneStr /\ s # <<>>

\* dict.get(key): the value, or None when the key is absent.
DictGet(d, key) == IF key \in DOMAIN d THEN d[key] ELSE None

\* dict.update(other): other's items override, the remaining items stay.
DictUpdate(d, other) ==
    [k \in DOMAIN d \cup DOMAIN other |->
        IF k \in DOMAIN other THEN other[k] ELSE d[k]]

\* The empty dict.
EmptyDict == [k \in {} |-> ""]

\* How a call ends.
Return(value) == [kind |-> "return", value |-> value]
Raise(error, message) == [kind |-> "raise", error |-> error, message |-> message]

---------------------------------------------------------------------------
(* The inputs of the model.                                                *)

\* The `authentication` argument: None, or a dict.
NoAuthentication == [isNone |-> TRUE, items |-> EmptyDict]
AuthDict(d) == [isNone |-> FALSE, items |-> d]

Authentications ==
    { NoAuthentication,
      AuthDict(EmptyDict),
      AuthDict([token |-> "T"]),
      AuthDict([sessionid |-> "S"]),
      AuthDict([token |-> "T", sessionid |-> "S"]),
      AuthDict([token |-> ""]),
      AuthDict([username |-> "u", password |-> "p"]) }

\* `if authentication is not None:` for `if authentication:`.
MutantAuthenticationGivenNotNone(authentication) == ~authentication.isNone

\* `if authentication:` -- neither None nor an empty dict.
AuthenticationGiven(authentication) ==
    ~authentication.isNone /\ DOMAIN authentication.items # {}

\* Values passed to _use_token and _use_sessionid.
TokenValues == {None, "", "T"}
SessionValues == {None, "", "S"}

\* The `version` argument.
Versions == {NoneStr, <<>>, <<"v">>, <<"/", "v">>}

\* The headers of the transport handed to the constructor, before __init__
\* updates them.
SessionHeaders == EmptyDict

\* The `host` and `scheme` arguments.
Host == <<"h">>
Scheme == <<"h", "t", "t", "p", "s">>

---------------------------------------------------------------------------
(* DRESTClient._use_token and DRESTClient._use_sessionid.                  *)

\* _use_token with the header's condition inverted.
MutantUseTokenInvertedHeader(c, value) ==
    [c EXCEPT
        !._token = value,
        !._authenticated = Truthy(value),
        !._headers = DictUpdate(c._headers,
            ("Authorization" :> IF ~Truthy(value) THEN value ELSE ""))]

_use_token(c, value) ==
    [c EXCEPT
        !._token = value,
        !._authenticated = Truthy(value),
        !._headers = DictUpdate(c._headers,
            ("Authorization" :> IF Truthy(value) THEN value ELSE ""))]

\* _use_sessionid that never takes the authenticated flag back.
MutantUseSessionidKeepsFlag(c, value) ==
    [c EXCEPT
        !._sessionid = value,
        !._authenticated = c._authenticated \/ Truthy(value),
        !._headers = DictUpdate(c._headers,
            ("Cookie" :> IF Truthy(value) THEN "sessionid=" \o value ELSE ""))]

_use_sessionid(c, value) ==
    [c EXCEPT
        !._sessionid = value,
        !._authenticated = Truthy(value),
        !._headers = DictUpdate(c._headers,
            ("Cookie" :> IF Truthy(value) THEN "sessionid=" \o value ELSE ""))]

---------------------------------------------------------------------------
(* DRESTClient.__init__.                                                   *)

\* NewClient with the authenticated flag starting False.
MutantNewClientUnauthenticated(host, version, scheme, authentication) ==
    [ _host |-> host,
      _version |-> version,
      _scheme |-> scheme,
      _headers |-> DictUpdate(SessionHeaders,
          ("Content-Type" :> "application/json") @@ ("Accept" :> "application/json")),
      _resources |-> EmptyDict,
      _authenticated |-> FALSE,
      _authentication |-> authentication,
      _token |-> Unset,
      _sessionid |-> Unset ]

\* The attributes as assigned before the `if authentication:` block.
NewClient(host, version, scheme, authentication) ==
    [ _host |-> host,
      _version |-> version,
      _scheme |-> scheme,
      _headers |-> DictUpdate(SessionHeaders,
          ("Content-Type" :> "application/json") @@ ("Accept" :> "application/json")),
      _resources |-> EmptyDict,
      _authenticated |-> TRUE,
      _authentication |-> authentication,
      _token |-> Unset,
      _sessionid |-> Unset ]

__init__(host, version, scheme, authentication) ==
    LET c0 == NewClient(host, version, scheme, authentication)
    IN  IF AuthenticationGiven(authentication)
        THEN LET c1 == [c0 EXCEPT !._authenticated = FALSE]
                 token == DictGet(authentication.items, "token")
                 sessionid == DictGet(authentication.items, "sessionid")
                 c2 == IF Truthy(token) THEN _use_token(c1, token) ELSE c1
             IN  IF Truthy(sessionid) THEN _use_sessionid(c2, sessionid) ELSE c2
        ELSE c0


---------------------------------------------------------------------------
(* DRESTClient.__getattr__: resource lookup.                               *)

\* str.lower() on the characters resource names are written with.
LowerChar(ch) ==
    CASE ch = "U" -> "u"
      [] OTHER -> ch

Lower(key) == [i \in 1..Len(key) |-> LowerChar(key[i])]

\* DRESTResource(client, name): a new object, distinct from every earlier one.
DRESTResource(name, allocated) == [id |-> allocated + 1, name |-> name]

\* key = key.lower(); return self._resources.get(key, DRESTResource(self, key))
\* The default argument is evaluated before get() runs, and nothing is stored.
__getattr__(c, key, allocated) ==
    LET k == Lower(key)
        default == DRESTResource(k, allocated)
    IN  [ self |-> c,
          value |-> IF k \in DOMAIN c._resources THEN c._resources[k] ELSE default ]

---------------------------------------------------------------------------
(* DRESTClient._build_url.                                                 *)

StartsWithSlash(s) == Len(s) > 0 /\ s[1] = "/"

\* _build_url that prepends the prefix as given, without its leading '/'.
MutantBuildUrlRawPrefix(c, url, prefix) ==
    LET url1 == IF ~StartsWithSlash(url) THEN <<"/">> \o url ELSE url
        url2 == IF TruthyStr(prefix) THEN prefix \o url1 ELSE url1
    IN  c._scheme \o <<":", "/", "/">> \o c._host \o url2

_build_url(c, url, prefix) ==
    LET url1 == IF ~StartsWithSlash(url) THEN <<"/">> \o url ELSE url
        url2 == IF TruthyStr(prefix)
                THEN (IF ~StartsWithSlash(prefix) THEN <<"/">> \o prefix ELSE prefix)
                     \o url1
                ELSE url1
    IN  c._scheme \o <<":", "/", "/">> \o c._host \o url2

---------------------------------------------------------------------------
(* json.loads on the response bodies of the model.                         *)

Bodies == {"null", "[7]", ""}

json_loads(content) ==
    CASE content = "null" -> Return([json |-> "null"])
      [] content = "[7]"  -> Return([json |-> "array", items |-> <<7>>])
      [] OTHER            -> Raise("ValueError", "No JSON object could be decoded")

---------------------------------------------------------------------------
(* The transport.                                                          *)

\* The transport raised instead of returning a response.
TransportFailure == [failed |-> TRUE]

Response(status_code, content) ==
    [failed |-> FALSE, status_code |-> status_code, content |-> content]

\* What self._client.request(...) can produce: a failure, a response below
\* 400 with each body, a response from 400 up.
Responses ==
    {TransportFailure}
    \cup {Response(s, b) : s \in {200, 399}, b \in Bodies}
    \cup {Response(s, "null") : s \in {400, 401, 403, 404, 500}}

\* What requests.post(...) of the login can produce; `sessionid` is
\* response.cookies.get('sessionid').
LoginResponses ==
    {TransportFailure}
    \cup {[failed |-> FALSE, status_code |-> s, sessionid |-> v] :
            s \in {200, 403}, v \in {None, "S"}}

\* settings.AUTH_ENDPOINT
AUTH_ENDPOINT == <<"a">>

\* One way a call can end: the client afterwards, the returned value or the
\* raised error, and the HTTP exchanges performed.
Outcome(c, r, exchanges) == [self |-> c, result |-> r, calls |-> exchanges]

---------------------------------------------------------------------------
(* DRESTClient._login.                                                     *)

\* The body of _login(self, raise_exception=True), for one login response.
LoginWith(c, raise_exception, response) ==
    LET call == [ target |-> "login",
                  url |-> _build_url(c, AUTH_ENDPOINT, NoneStr),
                  authenticated |-> c._authenticated,
                  response |-> response ]
    IN  IF response.failed
        THEN Outcome(c, Raise("ConnectionError", ""), <<call>>)
        ELSE IF raise_exception
                /\ response.status_code >= 400 /\ response.status_code < 600
        THEN Outcome(c, Raise("HTTPError", ""), <<call>>)
        ELSE Outcome(_use_sessionid(c, response.sessionid), Return(None), <<call>>)

\* Every way _login(self, raise_exception) can end.
_login(c, raise_exception) ==
    {LoginWith(c, raise_exception, response) : response \in LoginResponses}

\* Positional parameters _login accepts besides self: raise_exception.
LoginParameters == 1

\* Binding of a call self._login(*args): more positional arguments than
\* parameters is a TypeError raised before the body runs.
Call_login(c, args) ==
    IF Len(args) > LoginParameters
    THEN {Outcome(c, Raise("TypeError", "_login() takes at most 2 arguments"), <<>>)}
    ELSE _login(c, IF Len(args) = 1 THEN args[1] ELSE TRUE)

---------------------------------------------------------------------------
(* DRESTClient._authenticate.                                              *)

\* self._username and self._password are never assigned, so reading them
\* goes through __getattr__ and yields a resource handle each; these two
\* temporaries are dropped when the call returns or raises.
LoginArguments(c, raise_exception) ==
    << __getattr__(c, <<"_", "u">>, 0).value,
       __getattr__(c, <<"_", "p">>, 0).value,
       raise_exception >>

\* The statements of _authenticate after the login step ended as `login`.
AfterLogin(login, raise_exception) ==
    LET response == None
        c1 == login.self
    IN  IF login.result.kind = "raise"
        THEN login
        ELSE IF raise_exception /\ ~c1._authenticated
        THEN Outcome(c1,
                     Raise("AuthenticationFailed",
                           IF response # None THEN response ELSE "Unknown error"),
                     login.calls)
        ELSE Outcome(c1, Return(c1._authenticated), login.calls)

\* _authenticate that logs in whatever the authenticated flag says.
MutantAuthenticateAlwaysLogin(c, raise_exception) ==
    {AfterLogin(login, raise_exception) :
        login \in Call_login(c, LoginArguments(c, raise_exception))}

\* _authenticate that neither logs in nor raises.
MutantAuthenticateSilent(c, raise_exception) ==
    {Outcome(c, Return(c._authenticated), <<>>)}

\* Every way _authenticate(self, raise_exception) can end.
_authenticate(c, raise_exception) ==
    LET logins == IF ~c._authenticated
                  THEN Call_login(c, LoginArguments(c, raise_exception))
                  ELSE {Outcome(c, Return(None), <<>>)}
    IN  {AfterLogin(login, raise_exception) : login \in logins}

---------------------------------------------------------------------------
(* DRESTClient.request.                                                    *)

\* StatusOutcome with `> 400` for `>= 400`.
MutantStatusOutcomeOffByOne(response) ==
    IF response.status_code = 401 THEN Raise("AuthenticationFailed", "")
    ELSE IF response.status_code = 404 THEN Raise("DoesNotExist", "")
    ELSE IF response.status_code > 400 THEN Raise("BadRequest", "")
    ELSE json_loads(response.content)

\* The outcome the status code of a response selects.
StatusOutcome(response) ==
    IF response.status_code = 401 THEN Raise("AuthenticationFailed", "")
    ELSE IF response.status_code = 404 THEN Raise("DoesNotExist", "")
    ELSE IF response.status_code >= 400 THEN Raise("BadRequest", "")
    ELSE json_loads(response.content)

\* request that sends the call a second time after a response from 400 up.
MutantAfterAuthenticateRetry(auth, method, url, response) ==
    LET c1 == auth.self
        call == [ target |-> "resource",
                  method |-> method,
                  url |-> _build_url(c1, url, c1._version),
                  headers |-> c1._headers,
                  authenticated |-> c1._authenticated,
                  response |-> response ]
    IN  IF auth.result.kind = "raise"
        THEN auth
        ELSE Outcome(c1,
                     IF response.failed
                     THEN Raise("ConnectionError", "")
                     ELSE StatusOutcome(response),
                     IF ~response.failed /\ response.status_code >= 400
                     THEN Append(Append(auth.calls, call), call)
                     ELSE Append(auth.calls, call))

\* request that takes the authenticated flag back after a 401.
MutantAfterAuthenticateResetOn401(auth, method, url, response) ==
    LET c1 == auth.self
        call == [ target |-> "resource",
                  method |-> method,
                  url |-> _build_url(c1, url, c1._version),
                  headers |-> c1._headers,
                  authenticated |-> c1._authenticated,
                  response |-> response ]
    IN  IF auth.result.kind = "raise"
        THEN auth
        ELSE Outcome(IF ~response.failed /\ response.status_code = 401
                     THEN [c1 EXCEPT !._authenticated = FALSE]
                     ELSE c1,
                     IF response.failed
                     THEN Raise("ConnectionError", "")
                     ELSE StatusOutcome(response),
                     Append(auth.calls, call))

\* The statements of request after self._authenticate() ended as `auth`,
\* for one response of the transport.
AfterAuthenticate(auth, method, url, response) ==
    LET c1 == auth.self
        call == [ target |-> "resource",
                  method |-> method,
                  url |-> _build_url(c1, url, c1._version),
                  headers |-> c1._headers,
                  authenticated |-> c1._authenticated,
                  response |-> response ]
    IN  IF auth.result.kind = "raise"
        THEN auth
        ELSE Outcome(c1,
                     IF response.failed
                     THEN Raise("ConnectionError", "")
                     ELSE StatusOutcome(response),
                     Append(auth.calls, call))

\* Every way request(self, method, url) can end.
request(c, method, url) ==
    {AfterAuthenticate(auth, method, url, response) :
        auth \in _authenticate(c, TRUE), response \in Responses}

\* The arguments of request() in the model.
Methods == {"GET"}
Paths == {<<"r">>, <<"/", "r">>}

\* The names looked up on the client: two casings of one name, and another
\* name.
Keys == {<<"U">>, <<"u">>, <<"g">>}

---------------------------------------------------------------------------
(* The state machine.                                                      *)

Init ==
    \E version \in Versions, authentication \in Authentications :
        /\ self = __init__(Host, version, Scheme, authentication)
        /\ heap = 0
        /\ op = [name |-> "__init__"]
        /\ result = Return(None)
        /\ calls = <<>>
        /\ held = {}
        /\ requestsOnly = TRUE

UseToken ==
    \E value \in TokenValues :
        /\ self' = _use_token(self, value)
        /\ op' = [name |-> "_use_token", value |-> value]
        /\ result' = Return(None)
        /\ calls' = <<>>
        /\ requestsOnly' = FALSE
        /\ UNCHANGED <<heap, held>>

UseSessionid ==
    \E value \in SessionValues :
        /\ self' = _use_sessionid(self, value)
        /\ op' = [name |-> "_use_sessionid", value |-> value]
        /\ result' = Return(None)
        /\ calls' = <<>>
        /\ requestsOnly' = FALSE
        /\ UNCHANGED <<heap, held>>

GetAttr ==
    \E key \in Keys :
        /\ heap < MaxObjects
        /\ LET r == __getattr__(self, key, heap)
           IN  /\ self' = r.self
               /\ result' = Return(r.value)
               /\ held' = held \cup {<<Lower(key), r.value>>}
        /\ heap' = heap + 1
        /\ op' = [name |-> "__getattr__", key |-> key]
        /\ calls' = <<>>
        /\ requestsOnly' = FALSE

Authenticate ==
    \E raise_exception \in BOOLEAN :
        \E r \in _authenticate(self, raise_exception) :
            /\ self' = r.self
            /\ result' = r.result
            /\ calls' = r.calls
            /\ op' = [ name |-> "_authenticate",
                       raise_exception |-> raise_exception,
                       authenticated |-> self._authenticated ]
            /\ requestsOnly' = FALSE
            /\ UNCHANGED <<heap, held>>

\* A direct call of _login(raise_exception).
Login ==
    \E raise_exception \in BOOLEAN :
        \E r \in _login(self, raise_exception) :
            /\ self' = r.self
            /\ result' = r.result
            /\ calls' = r.calls
            /\ op' = [name |-> "_login", raise_exception |-> raise_exception]
            /\ requestsOnly' = FALSE
            /\ UNCHANGED <<heap, held>>

Request ==
    \E method \in Methods, url \in Paths :
        \E r \in request(self, method, url) :
            /\ self' = r.self
            /\ result' = r.result
            /\ calls' = r.calls
            /\ op' = [name |-> "request", method |-> method, url |-> url]
            /\ UNCHANGED <<heap, held, requestsOnly>>

Next ==
    \/ UseToken
    \/ UseSessionid
    \/ GetAttr
    \/ Authenticate
    \/ Login
    \/ Request

Spec == Init /\ [][Next]_vars

---------------------------------------------------------------------------
(* Vocabulary of the properties.                                           *)

\* A credential value that is neither None nor the empty string.
NonEmpty(v) == v \notin {None, ""}

\* The value of an outgoing header, "" when the header is not set.
Header(headers, name) == IF name \in DOMAIN headers THEN headers[name] ELSE ""

\* The HTTP exchanges of the last call, by target.
ResourceCalls == {i \in 1..Len(calls) : calls[i].target = "resource"}
LoginCalls == {i \in 1..Len(calls) : calls[i].target = "login"}

\* The last call was a request() whose transport returned a response.
Responded ==
    /\ op.name = "request"
    /\ ResourceCalls # {}
    /\ \A i \in ResourceCalls : ~calls[i].response.failed

\* The response the transport returned to the last request().
TheResponse == calls[Len(calls)].response

\* The texts that are JSON documents, and what each decodes to.
JsonTexts == {"null", "[7]"}
Decoded(text) ==
    IF text = "null" THEN [json |-> "null"] ELSE [json |-> "array", items |-> <<7>>]

\* The mapping of the three error classes of status codes.
ErrorMapping ==
    LET s == TheResponse.status_code
    IN  /\ s = 401 => result = Raise("AuthenticationFailed", "")
        /\ s = 404 => result = Raise("DoesNotExist", "")
        /\ (s >= 400 /\ s # 401 /\ s # 404) => result = Raise("BadRequest", "")

\* A non-empty token or sessionid in the authentication mapping.
CredentialsSupplied(authentication) ==
    \/ NonEmpty(DictGet(authentication.items, "token"))
    \/ NonEmpty(DictGet(authentication.items, "sessionid"))

\* No authentication mapping: None, or an empty one.
NoMapping(authentication) ==
    authentication.isNone \/ authentication.items = EmptyDict

---------------------------------------------------------------------------
(* Properties.                                                             *)

C2_TokenClient ==
    LET T == DictGet(self._authentication.items, "token")
    IN  (NonEmpty(T) /\ requestsOnly) =>
            /\ self._authenticated
            /\ LoginCalls = {}
            /\ op.name = "request" => Len(calls) = 1
            /\ \A i \in ResourceCalls : Header(calls[i].headers, "Authorization") = T

C2_Witness ==
    /\ DictGet(self._authentication.items, "token") = "T"
    /\ requestsOnly
    /\ op.name = "request"
    /\ Len(calls) = 1
    /\ Header(calls[1].headers, "Authorization") = "T"

\* C3: any two lookups whose names agree once lower-cased have returned the
\* identical Resource object.
C3_LookupCached ==
    \A p \in held, q \in held : p[1] = q[1] => p[2] = q[2]

\* C4 (as stated): right after construction the client is authenticated
\* exactly when a non-empty token or sessionid was supplied.
C4_AuthenticatedIffCredentials ==
    op.name = "__init__" =>
        (self._authenticated <=> CredentialsSupplied(self._authentication))

\* C4 (amended): right after construction the client is authenticated
\* exactly when a non-empty token or sessionid was supplied or no
\* authentication mapping (None or empty) was given; it starts not
\* authenticated only for a non-empty mapping that holds neither.
C4_AuthenticatedAfterConstruction ==
    op.name = "__init__" =>
        (self._authenticated <=>
            (CredentialsSupplied(self._authentication)
                \/ NoMapping(self._authentication)))

C4_Witness ==
    /\ op.name = "__init__"
    /\ self._authentication.isNone
    /\ self._authenticated

\* C5: the outgoing headers never carry a non-empty Authorization token and
\* a non-empty sessionid Cookie at the same time.
C5_OneCredentialForm ==
    ~ (/\ Header(self._headers, "Authorization") # ""
       /\ Header(self._headers, "Cookie") # "")

\* C6: _use_token(v) and _use_sessionid(v) leave the client authenticated
\* exactly when v is non-empty, and set Authorization to v, or Cookie to
\* 'sessionid=v', or the header to '' when v is empty.
C6_UseCredential ==
    /\ op.name = "_use_token" =>
          /\ self._authenticated <=> NonEmpty(op.value)
          /\ "Authorization" \in DOMAIN self._headers
          /\ self._headers["Authorization"] =
                (IF NonEmpty(op.value) THEN op.value ELSE "")
    /\ op.name = "_use_sessionid" =>
          /\ self._authenticated <=> NonEmpty(op.value)
          /\ "Cookie" \in DOMAIN self._headers
          /\ self._headers["Cookie"] =
                (IF NonEmpty(op.value) THEN "sessionid=" \o op.value ELSE "")

C6_Witness ==
    /\ op.name = "_use_sessionid"
    /\ op.value = ""
    /\ Header(self._headers, "Authorization") = "T"
    /\ ~self._authenticated
    /\ self._headers["Cookie"] = ""

\* C7: _authenticate() called on a client that is not authenticated performs
\* exactly one login request, and a login that returns a non-empty sessionid
\* leaves the client authenticated with Cookie = 'sessionid=<value>'.
C7_AuthenticateLogsIn ==
    (op.name = "_authenticate" /\ ~op.authenticated) =>
        /\ Cardinality(LoginCalls) = 1
        /\ \A i \in LoginCalls :
              (~calls[i].response.failed /\ NonEmpty(calls[i].response.sessionid)) =>
                  /\ self._authenticated
                  /\ Header(self._headers, "Cookie") =
                        "sessionid=" \o calls[i].response.sessionid

\* C8: when _authenticate() ends with the client not authenticated, it has
\* raised AuthenticationFailed if raise_exception is true, and returned
\* without raising if it is false.
C8_FailureSurfaced ==
    (op.name = "_authenticate" /\ ~op.authenticated /\ ~self._authenticated) =>
        IF op.raise_exception
        THEN result.kind = "raise" /\ result.error = "AuthenticationFailed"
        ELSE result.kind = "return"

\* C9: the resource HTTP call of a request() is issued with the client
\* authenticated, after the login exchanges of that request if any; a
\* request() that leaves the client not authenticated issued no resource
\* HTTP call.
C9_AuthenticateBeforeTransport ==
    op.name = "request" =>
        /\ \A i \in ResourceCalls :
              /\ calls[i].authenticated
              /\ i = Len(calls)
        /\ ~self._authenticated => (ResourceCalls = {} /\ result.kind = "raise")

C9_Witness ==
    /\ op.name = "request"
    /\ ~self._authenticated
    /\ result.kind = "raise"
    /\ ResourceCalls = {}

\* C10: a request() that met no transport failure, and whose response, if
\* any, carried a JSON document, either returns the decoded body or raises
\* one of AuthenticationFailed, DoesNotExist, BadRequest.
C10_ClassifiedOutcome ==
    (/\ op.name = "request"
     /\ \A i \in 1..Len(calls) : ~calls[i].response.failed
     /\ \A i \in ResourceCalls : calls[i].response.content \in JsonTexts) =>
        \/ result.kind = "return"
        \/ result.error \in {"AuthenticationFailed", "DoesNotExist", "BadRequest"}

\* scheme://host followed by a path.
UrlOf(path) == Scheme \o <<":", "/", "/">> \o Host \o path

\* A string with a leading '/' added exactly when it has none.
Slashed(s) == IF s # <<>> /\ s[1] = "/" THEN s ELSE <<"/">> \o s

\* The prefix part of a URL: empty when no prefix is given (None or '').
PrefixPart(prefix) == IF prefix \in {NoneStr, <<>>} THEN <<>> ELSE Slashed(prefix)

\* C11: every URL built is scheme://host<prefix'><path'>, with a leading '/'
\* added to the path and to the prefix exactly when it lacks one and no
\* prefix part when no prefix is given; request() builds its URL with the
\* version as prefix, the login request with no prefix.
C11_BuildUrl ==
    /\ op.name = "request" =>
          \A i \in ResourceCalls :
              calls[i].url = UrlOf(PrefixPart(self._version) \o Slashed(op.url))
    /\ \A i \in LoginCalls : calls[i].url = UrlOf(Slashed(AUTH_ENDPOINT))

C11_Witness ==
    /\ op.name = "request"
    /\ self._version = <<"v">>
    /\ op.url = <<"r">>
    /\ ResourceCalls # {}
    /\ calls[1].url = <<"h", "t", "t", "p", "s", ":", "/", "/", "h", "/", "v", "/", "r">>

\* C12: a request() issues at most one resource HTTP call, and a response
\* from 400 up is raised as an error by that invocation, the failing call
\* being its last HTTP exchange: no retry and no login after it.
C12_NoRetry ==
    op.name = "request" =>
        /\ Cardinality(ResourceCalls) <= 1
        /\ \A i \in ResourceCalls :
              (~calls[i].response.failed /\ calls[i].response.status_code >= 400) =>
                  /\ result.kind = "raise"
                  /\ i = Len(calls)

C12_Witness ==
    /\ op.name = "request"
    /\ Len(calls) = 1
    /\ ~calls[1].response.failed
    /\ calls[1].response.status_code = 500
    /\ result = Raise("BadRequest", "")

\* C13: a step of _authenticate() taken on an authenticated client issues no
\* HTTP exchange, returns True and leaves every attribute of the client
\* (flag, credentials, headers) as it was, whatever raise_exception is.
C13_AuthenticateNoOp ==
    [][(self._authenticated /\ op'.name = "_authenticate") =>
          /\ self' = self
          /\ calls' = <<>>
          /\ result' = Return(TRUE)]_vars

C13_Witness ==
    /\ op.name = "_authenticate"
    /\ op.authenticated
    /\ ~op.raise_exception
    /\ result = Return(TRUE)
    /\ calls = <<>>
    /\ Header(self._headers, "Cookie") = "sessionid=S"

\* C14: a step of request() taken on an authenticated client leaves every
\* attribute of the client (flag, credentials, headers) as it was and issues
\* no login, whatever the response is; the client stays authenticated.
C14_RequestKeepsAuthentication ==
    [][(self._authenticated /\ op'.name = "request") =>
          /\ self' = self
          /\ self'._authenticated
          /\ \A i \in 1..Len(calls') : calls'[i].target = "resource"]_vars

C14_Witness ==
    /\ op.name = "request"
    /\ Responded
    /\ TheResponse.status_code = 401
    /\ result = Raise("AuthenticationFailed", "")
    /\ self._authenticated
    /\ Header(self._headers, "Authorization") = "T"

\* C15: the client is marked not authenticated only if neither the
\* Authorization header nor the Cookie header holds a non-empty credential.
C15_FlagAgreesWithHeaders ==
    (op.name \in {"__init__", "_use_token", "_use_sessionid"}
        /\ ~self._authenticated) =>
            /\ Header(self._headers, "Authorization") = ""
            /\ Header(self._headers, "Cookie") = ""

\* C16: on a client constructed with no authentication mapping (None or
\* empty), while only request() is called, no login is issued and each
\* request makes exactly one HTTP call, to the resource, with no
\* Authorization and no Cookie credential; its outcome is the one the status
\* mapping gives for the response.
C16_NoMappingClient ==
    (NoMapping(self._authentication) /\ requestsOnly) =>
        /\ LoginCalls = {}
        /\ op.name = "request" =>
              /\ Len(calls) = 1
              /\ calls[1].target = "resource"
              /\ Header(calls[1].headers, "Authorization") = ""
              /\ Header(calls[1].headers, "Cookie") = ""
              /\ ~calls[1].response.failed =>
                    /\ ErrorMapping
                    /\ TheResponse.status_code < 400 =>
                          result = (IF TheResponse.content \in JsonTexts
                                    THEN Return(Decoded(TheResponse.content))
                                    ELSE Raise("ValueError",
                                               "No JSON object could be decoded"))

C16_Witness ==
    /\ self._authentication = AuthDict(EmptyDict)
    /\ requestsOnly
    /\ op.name = "request"
    /\ Len(calls) = 1
    /\ calls[1].headers =
          ("Content-Type" :> "application/json") @@ ("Accept" :> "application/json")
    /\ result = Raise("DoesNotExist", "")

====
